---- MODULE Spec2Model ----
(***************************************************************************)
(* Model of github.com/demskie/archive: the negotiating file handler       *)
(* (FileServer / fileHandler.ServeHTTP), its content-type cache guarded by  *)
(* a sync.RWMutex, and the path normalisation it performs; CompressFiles,   *)
(* the walk that writes the .gz and .br siblings; and the Archiver with its *)
(* temporary files and their deleteFileWhenDestroyed goroutines.            *)
(*                                                                         *)
(* A path is a sequence of tokens in which "/" is the separator, so that    *)
(* strings.HasPrefix, path.Clean and the "+ ext" concatenation are          *)
(* computed on the path's structure.                                        *)
(***************************************************************************)
EXTENDS Integers, Sequences, FiniteSets, TLC

VARIABLES
    disk,              \* the host filesystem: OS path -> file record
    contentTypeCache,  \* fileHandler.contentTypeCache: logical path -> MIME string ("" = no entry)
    mtx,               \* fileHandler.mtx: who holds the RWMutex shared / exclusive
    req,               \* one record per in-flight call of ServeHTTP
    cf,                \* the call of CompressFiles: its arguments, the walk, its results
    ar                 \* one Archiver, its temporary files, its callers and its goroutines

vars == <<disk, contentTypeCache, mtx, req, cf, ar>>

\* what the file handler never touches
nonHandlerVars == <<cf, ar>>

(***************************************************************************)
(* Bounds of the model.                                                     *)
(***************************************************************************)
MaxSpecs == 2          \* longest parsed Accept-Encoding list
SmallSize == 100       \* size in bytes of a short file (below the sniff length)
LargeSize == 600       \* size in bytes of a long file (above the sniff length)

Reqs == {"r1", "r2"}   \* concurrent calls of ServeHTTP on one handler

(***************************************************************************)
(* The encoding catalog.                                                    *)
(***************************************************************************)
encoders == <<"br", "gzip", "">>

extensions_swapped == <<".gz", ".br", "">>
extensions == <<".br", ".gz", "">>

(***************************************************************************)
(* Paths.                                                                   *)
(***************************************************************************)
HasPrefixSlash(p) == Len(p) > 0 /\ p[1] = "/"

\* the elements between the slashes; empty elements (// and a trailing /) vanish
Names(p) == SelectSeq(p, LAMBDA t : t # "/")

RECURSIVE CleanSegs(_, _, _)
CleanSegs(segs, out, rooted) ==
    IF segs = <<>> THEN out
    ELSE LET s == Head(segs)
             rest == Tail(segs)
         IN  IF s = "." THEN CleanSegs(rest, out, rooted)
             ELSE IF s = ".."
                  THEN IF out # <<>> /\ out[Len(out)] # ".."
                       THEN CleanSegs(rest, SubSeq(out, 1, Len(out) - 1), rooted)
                       ELSE IF rooted THEN CleanSegs(rest, out, rooted)
                       ELSE CleanSegs(rest, Append(out, ".."), rooted)
                  ELSE CleanSegs(rest, Append(out, s), rooted)

RECURSIVE JoinSegs(_)
JoinSegs(segs) ==
    IF segs = <<>> THEN <<>>
    ELSE IF Len(segs) = 1 THEN <<segs[1]>>
    ELSE <<segs[1], "/">> \o JoinSegs(Tail(segs))

\* path.Clean
Clean(p) ==
    LET rooted == HasPrefixSlash(p)
        segs == CleanSegs(Names(p), <<>>, rooted)
    IN  IF rooted THEN <<"/">> \o JoinSegs(segs)
        ELSE IF segs = <<>> THEN <<".">>
        ELSE JoinSegs(segs)

\* p + ext on strings: the extension joins the last element
PathPlus(p, ext) ==
    IF ext = "" THEN p
    ELSE IF p = <<>> THEN <<ext>>
    ELSE [p EXCEPT ![Len(p)] = @ \o ext]

\* the first lines of tryServingContent: the logical path of a request
OriginalPath(urlPath) ==
    LET p1 == IF ~HasPrefixSlash(urlPath) THEN <<"/">> \o urlPath ELSE urlPath
        p2 == Clean(p1)
    IN  IF p2 = <<"/">> THEN <<"/", "index.html">> ELSE p2

\* filepath.Ext of the last element, over the names of the model
ExtOf(p) ==
    IF p = <<>> THEN ""
    ELSE IF p[Len(p)] = "index.html" THEN ".html"
    ELSE ""

\* mime.TypeByExtension
TypeByExtension(ext) ==
    IF ext = ".html" THEN "text/html; charset=utf-8" ELSE ""

(***************************************************************************)
(* The filesystem.                                                          *)
(***************************************************************************)
RootDir == <<"/", "srv">>       \* fileHandler.rootDir

Absent == [kind |-> "absent", content |-> "", size |-> 0]
Directory == [kind |-> "dir", content |-> "", size |-> 0]
RegularFile(content, size) == [kind |-> "file", content |-> content, size |-> size]

Assets == {"index.html", "data"}
Exts == {"", ".gz", ".br"}
AssetPath(a, e) == RootDir \o <<"/", a \o e>>
HostData == <<"/", "data">>      \* a file of the host outside RootDir

OSPaths ==
    {AssetPath(a, e) : a \in Assets, e \in Exts}
        \cup {RootDir \o <<"/", "dir">>, HostData}

Stat(d, p) == IF p \in DOMAIN d THEN d[p] ELSE Absent

\* the bytes written for an asset: the source itself, or its compressed sibling
ContentOf(a, e) ==
    IF e = ".gz" THEN "gzip"
    ELSE IF e = ".br" THEN "brotli"
    ELSE IF a = "index.html" THEN "html" ELSE "text"

SizeOf(a, e) == IF a = "data" /\ e = "" THEN LargeSize ELSE SmallSize

\* a tree in which every asset has the variants `variant` says, /srv/dir is a
\* directory, and the host has or has not a file /data of its own
DiskOf(variant, host) ==
    [p \in OSPaths |->
        IF p = HostData THEN host
        ELSE IF p = RootDir \o <<"/", "dir">> THEN Directory
        ELSE LET ae == CHOOSE x \in Assets \X Exts : p = AssetPath(x[1], x[2])
             IN  IF variant[ae[2]] = "file"
                   THEN RegularFile(ContentOf(ae[1], ae[2]), SizeOf(ae[1], ae[2]))
                 ELSE IF variant[ae[2]] = "dir" THEN Directory
                 ELSE Absent]

Disks(hosts) ==
    {DiskOf(v, h) : v \in [Exts -> {"absent", "dir", "file"}], h \in hosts}

\* http.Dir.Open: the name is cleaned as a rooted path and joined to the root
DirOSPath(name) == RootDir \o Clean(<<"/">> \o name)

(***************************************************************************)
(* Content-type detection.                                                  *)
(***************************************************************************)
SniffLen == 512

\* filetype.MatchFile(p): os.Open of p as given, then a match on magic bytes
MagicType(content) ==
    IF content = "png" THEN "image/png"
    ELSE IF content = "gzip" THEN "application/gzip"
    ELSE ""

MatchFile(d, p) ==
    IF Stat(d, p).kind = "file" THEN MagicType(Stat(d, p).content) ELSE ""

\* the length of the buffer determineContentType allocates; statFailed is
\* err != nil of file.Stat()
SniffSize(statFailed, fileSize) ==
    IF statFailed /\ fileSize < SniffLen THEN fileSize ELSE SniffLen

Min(a, b) == IF a < b THEN a ELSE b

\* make([]byte, size) then file.Read(bytes): the bytes read, then zero bytes
ReadBuf(f) ==
    LET n == SniffSize(FALSE, f.size)
    IN  [content |-> f.content, len |-> n, filled |-> Min(n, f.size)]

\* http.DetectContentType: signatures on the leading bytes first, then text
\* unless a binary byte (a zero byte of padding is one) occurs
DetectContentType(buf) ==
    IF buf.content = "html" THEN "text/html; charset=utf-8"
    ELSE IF buf.content = "gzip" THEN "application/x-gzip"
    ELSE IF buf.content = "png" THEN "image/png"
    ELSE IF buf.content = "text" /\ buf.filled = buf.len
         THEN "text/plain; charset=utf-8"
    ELSE "application/octet-stream"

\* no buffer: determineContentType returned before it allocated one
NoBuf == [content |-> "", len |-> 0, filled |-> 0]

\* determineContentType after a cache miss, keyed by the path it was given and
\* reading the handle it was given: the type, and the host paths it opened
ResolveType(d, p, f) ==
    LET byExt == TypeByExtension(ExtOf(p))
        byMagic == MatchFile(d, p)
    IN  IF byExt # "" THEN [type |-> byExt, opened |-> {}, buf |-> NoBuf]
        ELSE [type |-> IF byMagic # "" THEN byMagic
                       ELSE DetectContentType(ReadBuf(f)),
              opened |-> IF Stat(d, p).kind # "absent" THEN {p} ELSE {},
              buf |-> IF byMagic # "" THEN NoBuf ELSE ReadBuf(f)]

(***************************************************************************)
(* Response headers: http.Header is a map from a key to its list of values. *)
(***************************************************************************)
NoHeader == [k \in {"Content-Encoding", "Content-Type"} |-> <<>>]

\* Header.Set(k, v): the key now holds exactly the value v
HeaderSet(h, k, v) == [h EXCEPT ![k] = <<v>>]

(***************************************************************************)
(* Accept-Encoding, as header.ParseAccept returns it: a list of             *)
(* (Value, Q) in header order, Q in thousandths.                            *)
(***************************************************************************)
Tokens == {"br", "gzip"}
Qualities == {0, 500, 1000}
SpecElems == [Value : Tokens, Q : Qualities]
AcceptSpecs == UNION {[1..n -> SpecElems] : n \in 0..MaxSpecs}

(***************************************************************************)
(* The loop of ServeHTTP.  A position is (i, j): catalog entry i, and j = 0  *)
(* for the `len(specs) == 0` attempt, j >= 1 for the j-th spec of the inner  *)
(* loop.                                                                    *)
(***************************************************************************)
\* the inner condition without the identity fallback
SpecSelects_NoIdentity(spec, i) ==
    spec.Value = encoders[i] /\ spec.Q > 0

\* the inner condition with the quality test dropped
SpecSelects_AnyQ(spec, i) ==
    (spec.Value = encoders[i]) \/ extensions[i] = ""

\* spec.Value == encoders[i] && spec.Q > 0 || extensions[i] == ""
SpecSelects(spec, i) ==
    (spec.Value = encoders[i] /\ spec.Q > 0) \/ extensions[i] = ""

\* the attempt for an empty list made for the identity entry only
CondAt_NoEmptyFallback(specs, i, j) ==
    IF j = 0 THEN Len(specs) = 0 /\ extensions[i] = ""
    ELSE SpecSelects(specs[j], i)

CondAt(specs, i, j) ==
    IF j = 0 THEN Len(specs) = 0 ELSE SpecSelects(specs[j], i)

NextPos(specs, i, j) ==
    IF j < Len(specs) THEN [i |-> i, j |-> j + 1] ELSE [i |-> i + 1, j |-> 0]

\* a failed attempt that ends the loop instead of continuing it
AfterFailure_GiveUp(specs, i, j) == [i |-> Len(encoders) + 1, j |-> 0]

\* tryServingContent returned an error: the loop goes on
AfterFailure(specs, i, j) == NextPos(specs, i, j)

\* the first position at or after (i, j) at which tryServingContent is called
RECURSIVE NextAttempt(_, _, _)
NextAttempt(specs, i, j) ==
    IF i > Len(encoders) THEN [i |-> i, j |-> 0]
    ELSE IF CondAt(specs, i, j) THEN [i |-> i, j |-> j]
    ELSE NextAttempt(specs, NextPos(specs, i, j).i, NextPos(specs, i, j).j)

(***************************************************************************)
(* The handler's state.                                                     *)
(***************************************************************************)
IdleReq ==
    [pc |-> "idle",            \* idle, loop, rlock, reading, lock, writing, done
     path |-> <<>>,            \* r.URL.Path
     specs |-> <<>>,           \* header.ParseAccept(r.Header, "Accept-Encoding")
     i |-> 1, j |-> 0,         \* the next position of the loop to examine
     tried |-> <<>>,           \* the extensions tryServingContent was called with
     originalPath |-> <<>>,    \* originalPath of the successful attempt
     ext |-> "",               \* the extension of the file opened and served
     file |-> Absent,          \* the open handle
     pending |-> "",           \* the content type being cached
     opened |-> {},            \* every OS path this request opened
     sniffed |-> NoBuf,        \* the buffer given to http.DetectContentType
     header |-> NoHeader,      \* w.Header()
     status |-> 0,             \* 0: nothing written yet
     body |-> <<>>]            \* the OS path of the file streamed

\* the goroutines that call the methods of the Archiver
Threads == {"t1", "t2"}

IdleThread ==
    [pc |-> "idle",
     op |-> "",                \* the method called
     filename |-> <<>>,        \* AddCSV's filename, CreateArchive's p
     lines |-> <<>>,           \* AddCSV's lines
     closedAtCall |-> FALSE,   \* destroyChan was closed when the call was made
     file |-> 0,               \* AddCSV's temporary file
     k |-> 0,                  \* CreateArchive's position in the file list
     deferred |-> {},          \* the temporary files of CreateArchive's deferred os.Remove calls
     ret |-> ""]               \* the value returned ("nil" for no error)

\* NewArchiver(), with the part of the filesystem the Archiver works on
NewArchiver ==
    [mtx |-> "",               \* the thread that holds a.mtx ("" = unlocked)
     filelist |-> <<>>,        \* a.filelist: entries [name, object]
     destroyChan |-> "open",   \* a.destroyChan: "open" or "closed"
     closes |-> 0,             \* executions of close(a.destroyChan)
     nextTemp |-> 0,           \* temporary files created so far: 1..nextTemp
     tmp |-> {},               \* the temporary files that exist on disk
     content |-> <<>>,         \* temporary file -> the rows written to it
     offset |-> <<>>,          \* temporary file -> the read position of its handle
     deleters |-> {},          \* the files whose deleteFileWhenDestroyed goroutine has not removed yet
     out |-> <<>>,             \* output path -> the entries of the archive written there
     short |-> FALSE,          \* the tar writer's current entry got fewer bytes than its header said
     calls |-> 0,              \* method calls made so far
     added |-> <<>>,           \* the arguments of the AddCSV calls that returned nil, in order
     thr |-> [t \in Threads |-> IdleThread]]

\* no call of CompressFiles has been made
IdleCF ==
    [pc |-> "idle",
     dir |-> <<>>,             \* the argument dir
     rule |-> {},              \* the argument rgx
     todo |-> <<>>,            \* the paths filepath.Walk has still to visit
     matches |-> <<>>,         \* the returned list of paths
     err |-> "",               \* the returned error ("" = nil)
     pre |-> <<>>,             \* the filesystem when the call was made
     created |-> {},           \* the paths this call gave to os.Create
     swallowed |-> {},         \* the errors that occurred and were not returned
     faults |-> 0,             \* failures of the operating system so far
     runs |-> 0]               \* calls made so far

\* FileServer(root): a fresh lock and an empty cache
Init ==
    /\ disk \in Disks({Absent})
    /\ contentTypeCache = <<>>
    /\ mtx = [readers |-> {}, writers |-> {}]
    /\ req = [r \in Reqs |-> IdleReq]
    /\ cf = IdleCF
    /\ ar = NewArchiver

CacheGet(c, p) == IF p \in DOMAIN c THEN c[p] ELSE ""
CachePut(c, p, v) == (p :> v) @@ c

\* sync.RWMutex
CanRLock(m) == m.writers = {}

CanLock_IgnoreReaders(m) == m.writers = {}
CanLock(m) == m.readers = {} /\ m.writers = {}

\* the two Header().Set calls and http.ServeContent of tryServingContent
Respond(rq, contentType) ==
    [rq EXCEPT !.header = HeaderSet(@, "Content-Type", contentType),
               !.status = 200,
               !.body = DirOSPath(PathPlus(rq.originalPath, rq.ext)),
               !.pc = "done"]

(***************************************************************************)
(* Actions.                                                                 *)
(***************************************************************************)
\* a request arrives: ServeHTTP is entered and Accept-Encoding is parsed
ServeHTTP(r, urlPath, specs) ==
    /\ req[r].pc = "idle"
    /\ req' = [req EXCEPT ![r] = [IdleReq EXCEPT !.pc = "loop",
                                                 !.path = urlPath,
                                                 !.specs = specs]]
    /\ UNCHANGED <<disk, contentTypeCache, mtx>>
    /\ UNCHANGED nonHandlerVars

\* fileInfo.IsDir() of the opened candidate: ErrPathIsDirectory is returned
\* before any header is set
IsDir_Never(f) == FALSE

IsDir(f) == f.kind = "dir"

\* the loop runs to its next call of tryServingContent, which opens the
\* candidate; on success the Content-Encoding header is set and
\* determineContentType is entered
TryServingContent(r) ==
    LET rq == req[r]
        at == NextAttempt(rq.specs, rq.i, rq.j)
    IN  /\ rq.pc = "loop"
        /\ at.i <= Len(encoders)
        /\ LET enc == encoders[at.i]
               ext == extensions[at.i]
               originalPath == OriginalPath(rq.path)
               osPath == DirOSPath(PathPlus(originalPath, ext))
               f == Stat(disk, osPath)
               nxt == AfterFailure(rq.specs, at.i, at.j)
               tried == Append(rq.tried, ext)
           IN  req' = [req EXCEPT ![r] =
                   IF f.kind = "absent"
                     THEN [rq EXCEPT !.i = nxt.i, !.j = nxt.j, !.tried = tried]
                   ELSE IF IsDir(f)
                     THEN [rq EXCEPT !.i = nxt.i, !.j = nxt.j, !.tried = tried,
                                     !.opened = @ \cup {osPath}]
                   ELSE [rq EXCEPT !.i = at.i, !.j = at.j, !.tried = tried,
                                   !.opened = @ \cup {osPath},
                                   !.originalPath = originalPath,
                                   !.ext = ext,
                                   !.file = f,
                                   !.header = HeaderSet(@, "Content-Encoding", enc),
                                   !.pc = "rlock"]]
        /\ UNCHANGED <<disk, contentTypeCache, mtx>>
        /\ UNCHANGED nonHandlerVars

\* the loop ends without a successful attempt: http.NotFound
NotFound(r) ==
    LET rq == req[r]
        at == NextAttempt(rq.specs, rq.i, rq.j)
    IN  /\ rq.pc = "loop"
        /\ at.i > Len(encoders)
        /\ req' = [req EXCEPT ![r] =
                [rq EXCEPT !.i = at.i, !.j = at.j,
                           !.header = HeaderSet(@, "Content-Type",
                                                "text/plain; charset=utf-8"),
                           !.status = 404,
                           !.pc = "done"]]
        /\ UNCHANGED <<disk, contentTypeCache, mtx>>
        /\ UNCHANGED nonHandlerVars

\* getCachedContentType: f.mtx.RLock()
RLock(r) ==
    /\ req[r].pc = "rlock"
    /\ CanRLock(mtx)
    /\ mtx' = [mtx EXCEPT !.readers = @ \cup {r}]
    /\ req' = [req EXCEPT ![r].pc = "reading"]
    /\ UNCHANGED <<disk, contentTypeCache>>
    /\ UNCHANGED nonHandlerVars

\* getCachedContentType reads the map and unlocks; determineContentType returns
\* a non-empty cached value, and otherwise resolves the type
GetCachedContentType(r) ==
    LET rq == req[r]
        val == CacheGet(contentTypeCache, rq.originalPath)
        res == ResolveType(disk, rq.originalPath, rq.file)
    IN  /\ rq.pc = "reading"
        /\ mtx' = [mtx EXCEPT !.readers = @ \ {r}]
        /\ req' = [req EXCEPT ![r] =
                IF val # "" THEN Respond(rq, val)
                ELSE [rq EXCEPT !.pending = res.type,
                                !.opened = @ \cup res.opened,
                                !.sniffed = res.buf,
                                !.pc = "lock"]]
        /\ UNCHANGED <<disk, contentTypeCache>>
        /\ UNCHANGED nonHandlerVars

\* cacheContentType: f.mtx.Lock()
Lock(r) ==
    /\ req[r].pc = "lock"
    /\ CanLock(mtx)
    /\ mtx' = [mtx EXCEPT !.writers = @ \cup {r}]
    /\ req' = [req EXCEPT ![r].pc = "writing"]
    /\ UNCHANGED <<disk, contentTypeCache>>
    /\ UNCHANGED nonHandlerVars

\* cacheContentType writes the map and unlocks; determineContentType returns
\* and the file is served
CacheContentType(r) ==
    LET rq == req[r]
    IN  /\ rq.pc = "writing"
        /\ contentTypeCache' = CachePut(contentTypeCache, rq.originalPath, rq.pending)
        /\ mtx' = [mtx EXCEPT !.writers = @ \ {r}]
        /\ req' = [req EXCEPT ![r] = Respond(rq, rq.pending)]
        /\ UNCHANGED disk
        /\ UNCHANGED nonHandlerVars

Step(r) ==
    \/ TryServingContent(r)
    \/ NotFound(r)
    \/ RLock(r)
    \/ GetCachedContentType(r)
    \/ Lock(r)
    \/ CacheContentType(r)

(***************************************************************************)
(* Spec: one request for an asset on a fresh handler, over every tree and   *)
(* every Accept-Encoding list of the bounds.                                *)
(***************************************************************************)
AssetURLs == {<<"/">>, <<"/", "data">>}

Next ==
    \/ \E u \in AssetURLs, s \in AcceptSpecs : ServeHTTP("r1", u, s)
    \/ Step("r1")

Spec == Init /\ [][Next]_vars

(***************************************************************************)
(* SpecPaths: one request on a fresh handler, over URL paths that need      *)
(* normalising and a host that may hold a file of its own outside the root. *)
(***************************************************************************)
URLPaths ==
    {<<"/">>,
     <<>>,
     <<"/", "data">>,
     <<"data">>,
     <<"/", "dir", "/", "..", "/", "data">>,
     <<"/", "..", "/", "..", "/", "data">>,
     <<"/", ".", "/", "/", "index.html">>,
     <<"/", "dir">>,
     <<"/", "dir", "/">>,
     <<"/", "missing">>}

PathSpecs ==
    {<<>>,
     <<[Value |-> "gzip", Q |-> 1000]>>,
     <<[Value |-> "gzip", Q |-> 0]>>}

InitPaths ==
    /\ disk \in Disks({Absent, RegularFile("png", LargeSize)})
    /\ contentTypeCache = <<>>
    /\ mtx = [readers |-> {}, writers |-> {}]
    /\ req = [r \in Reqs |-> IdleReq]
    /\ cf = IdleCF
    /\ ar = NewArchiver

NextPaths ==
    \/ \E u \in URLPaths, s \in PathSpecs : ServeHTTP("r1", u, s)
    \/ Step("r1")

SpecPaths == InitPaths /\ [][NextPaths]_vars

(***************************************************************************)
(* SpecConc: two concurrent requests on one handler.                        *)
(***************************************************************************)
NextConc ==
    \/ \E r \in Reqs, u \in AssetURLs, s \in PathSpecs : ServeHTTP(r, u, s)
    \/ \E r \in Reqs : Step(r)

SpecConc == Init /\ [][NextConc]_vars

(***************************************************************************)
(* The vocabulary of the properties: the catalog and eligibility as the     *)
(* specification states them, over the normalized path P of a request.      *)
(***************************************************************************)
Catalog ==
    <<[token |-> "br", suffix |-> ".br"],
      [token |-> "gzip", suffix |-> ".gz"],
      [token |-> "", suffix |-> ""]>>

Lists(specs, token) == \E k \in 1..Len(specs) : specs[k].Value = token

ListsPositive(specs, token) ==
    \E k \in 1..Len(specs) : specs[k].Value = token /\ specs[k].Q > 0

Eligible(specs, n) ==
    \/ Len(specs) = 0
    \/ Catalog[n].suffix = ""
    \/ ListsPositive(specs, Catalog[n].token)

\* P + suffix under the root
VariantPath(urlPath, suffix) == RootDir \o PathPlus(OriginalPath(urlPath), suffix)

IsRegular(p) == Stat(disk, p).kind = "file"

Openable(urlPath, n) == IsRegular(VariantPath(urlPath, Catalog[n].suffix))

Candidates(rq) ==
    {n \in 1..Len(Catalog) : Eligible(rq.specs, n) /\ Openable(rq.path, n)}

FirstOf(S) == CHOOSE n \in S : \A m \in S : n <= m

\* the response streams the file of catalog entry n
ServedVariant(rq, n) ==
    rq.status = 200 /\ rq.body = VariantPath(rq.path, Catalog[n].suffix)

ContentEncoding(rq) == rq.header["Content-Encoding"]
ContentType(rq) == rq.header["Content-Type"]

\* C1: a request that lists br and gzip with positive quality, in any order
\* and with any positive values, is served P.br with Content-Encoding br when
\* P.br and P.gz are regular files; in general the variant served is the first
\* catalog entry that is eligible and openable
C1_NegotiationPrecedence ==
    \A r \in Reqs :
        LET rq == req[r]
        IN  rq.pc = "done" =>
              /\ (/\ ListsPositive(rq.specs, "br")
                  /\ ListsPositive(rq.specs, "gzip")
                  /\ Openable(rq.path, 1)
                  /\ Openable(rq.path, 2))
                    => ServedVariant(rq, 1) /\ ContentEncoding(rq) = <<"br">>
              /\ Candidates(rq) # {} => ServedVariant(rq, FirstOf(Candidates(rq)))

C1_Witness ==
    \E r \in Reqs :
        /\ req[r].pc = "done"
        /\ req[r].specs = <<[Value |-> "gzip", Q |-> 1000], [Value |-> "br", Q |-> 500]>>
        /\ Openable(req[r].path, 1)
        /\ Openable(req[r].path, 2)
        /\ ServedVariant(req[r], 1)

\* C2: a request that lists gzip only with quality 0 is never served the .gz
\* artifact, and likewise br and the .br artifact; with no encoding listed
\* positively the answer is the identity variant or 404
C2_QualityZeroExclusion ==
    \A r \in Reqs :
        LET rq == req[r]
        IN  rq.pc = "done" =>
              /\ (Lists(rq.specs, "gzip") /\ ~ListsPositive(rq.specs, "gzip"))
                    => ~ServedVariant(rq, 2)
              /\ (Lists(rq.specs, "br") /\ ~ListsPositive(rq.specs, "br"))
                    => ~ServedVariant(rq, 1)
              /\ (/\ Len(rq.specs) > 0
                  /\ ~ListsPositive(rq.specs, "gzip")
                  /\ ~ListsPositive(rq.specs, "br"))
                    => rq.status = 404 \/ ServedVariant(rq, 3)

C2_Witness ==
    \E r \in Reqs :
        /\ req[r].pc = "done"
        /\ req[r].specs = <<[Value |-> "gzip", Q |-> 0]>>
        /\ Openable(req[r].path, 2)
        /\ ServedVariant(req[r], 3)

\* C3: a failed open (absent, or a directory) of an eligible candidate does
\* not end the request: with br and gzip accepted, no regular P.br and a
\* regular P.gz, the response is P.gz with Content-Encoding gzip; and a 404
\* is given only after every eligible entry was attempted
C3_NegotiationFallback ==
    \A r \in Reqs :
        LET rq == req[r]
        IN  rq.pc = "done" =>
              /\ (/\ ListsPositive(rq.specs, "br")
                  /\ ListsPositive(rq.specs, "gzip")
                  /\ ~Openable(rq.path, 1)
                  /\ Openable(rq.path, 2))
                    => /\ ServedVariant(rq, 2)
                       /\ ContentEncoding(rq) = <<"gzip">>
                       /\ rq.tried[1] = ".br"
              /\ rq.status = 404 =>
                    \A n \in 1..Len(Catalog) :
                        Eligible(rq.specs, n) =>
                            \E k \in 1..Len(rq.tried) : rq.tried[k] = Catalog[n].suffix

C3_Witness ==
    \E r \in Reqs :
        /\ req[r].pc = "done"
        /\ req[r].specs = <<[Value |-> "br", Q |-> 1000], [Value |-> "gzip", Q |-> 1000]>>
        /\ Stat(disk, VariantPath(req[r].path, ".br")).kind = "dir"
        /\ req[r].tried = <<".br", ".gz">>
        /\ ServedVariant(req[r], 2)

\* C4: the answer is 404 exactly when no eligible catalog entry is a regular
\* file, identity being eligible whatever Accept-Encoding says: never 404
\* when P is a regular file, always 404 when none of P, P.gz, P.br exists
C4_NotFoundIff ==
    \A r \in Reqs :
        LET rq == req[r]
        IN  rq.pc = "done" =>
              /\ rq.status \in {200, 404}
              /\ rq.status = 404 <=> Candidates(rq) = {}
              /\ Openable(rq.path, 3) => rq.status # 404
              /\ (\A n \in 1..Len(Catalog) :
                      Stat(disk, VariantPath(rq.path, Catalog[n].suffix)).kind = "absent")
                    => rq.status = 404

C4_Witness ==
    \E r \in Reqs :
        /\ req[r].pc = "done"
        /\ req[r].status = 404
        /\ Len(req[r].specs) > 0
        /\ Openable(req[r].path, 1)
        /\ Openable(req[r].path, 2)
        /\ ~Openable(req[r].path, 3)

\* C5: without an Accept-Encoding header every catalog entry is tried in the
\* order br, gzip, identity: P.br is served with br if it is a regular file,
\* otherwise P.gz with gzip, otherwise P
C5_EmptyPreferenceSet ==
    \A r \in Reqs :
        LET rq == req[r]
        IN  (rq.pc = "done" /\ Len(rq.specs) = 0) =>
              /\ Openable(rq.path, 1)
                    => ServedVariant(rq, 1) /\ ContentEncoding(rq) = <<"br">>
              /\ (~Openable(rq.path, 1) /\ Openable(rq.path, 2))
                    => ServedVariant(rq, 2) /\ ContentEncoding(rq) = <<"gzip">>
              /\ (~Openable(rq.path, 1) /\ ~Openable(rq.path, 2) /\ Openable(rq.path, 3))
                    => ServedVariant(rq, 3)
              /\ \A k \in 1..Len(rq.tried) : rq.tried[k] = Catalog[k].suffix

C5_Witness ==
    \E r \in Reqs :
        /\ req[r].pc = "done"
        /\ Len(req[r].specs) = 0
        /\ ~Openable(req[r].path, 1)
        /\ Openable(req[r].path, 2)
        /\ ServedVariant(req[r], 2)
        /\ req[r].tried = <<".br", ".gz">>

\* the header a catalog token stands for: none at all for the empty token
HeaderOfToken(token) == IF token = "" THEN <<>> ELSE <<token>>

EncodingMatchesVariant(rq) ==
    \A n \in 1..Len(Catalog) :
        ServedVariant(rq, n) => ContentEncoding(rq) = HeaderOfToken(Catalog[n].token)

\* C6: a served response carries the catalog token of the file opened as its
\* Content-Encoding (br for .br, gzip for .gz) and no Content-Encoding header
\* at all for the identity variant; failed attempts and the 404 carry none
C6_ContentEncodingHeader ==
    \A r \in Reqs :
        LET rq == req[r]
        IN  /\ rq.status = 200 => EncodingMatchesVariant(rq)
            /\ rq.pc = "loop" => ContentEncoding(rq) = <<>>
            /\ rq.status = 404 => ContentEncoding(rq) = <<>>

\* C7: the cache is keyed by logical paths only, and the Content-Type of two
\* responses for the same logical path is the same whichever variant each
\* of them opened
C7_ContentTypeByLogicalPath ==
    /\ \A p \in DOMAIN contentTypeCache : \E u \in AssetURLs : p = OriginalPath(u)
    /\ \A r, q \in Reqs :
          (/\ req[r].status = 200
           /\ req[q].status = 200
           /\ OriginalPath(req[r].path) = OriginalPath(req[q].path))
              => ContentType(req[r]) = ContentType(req[q])

\* C8: a cache entry, once written, is never replaced by a different value
C8_CacheStability ==
    [][\A p \in DOMAIN contentTypeCache :
          CacheGet(contentTypeCache', p) = contentTypeCache[p]]_vars

MimeTypes ==
    {"text/html; charset=utf-8", "text/plain; charset=utf-8", "image/png",
     "application/gzip", "application/x-gzip", "application/octet-stream"}

\* C9: the map is read only by holders of the shared lock and written only by
\* the holder of the exclusive lock, a write overlaps no other write and no
\* read, and every entry of the map is a whole MIME string
C9_CacheUnderLock ==
    /\ mtx.readers = {r \in Reqs : req[r].pc = "reading"}
    /\ mtx.writers = {r \in Reqs : req[r].pc = "writing"}
    /\ Cardinality(mtx.writers) <= 1
    /\ mtx.writers # {} => mtx.readers = {}
    /\ \A p \in DOMAIN contentTypeCache : contentTypeCache[p] \in MimeTypes

C9_Witness ==
    \E r, q \in Reqs :
        /\ req[r].pc = "writing"
        /\ req[q].pc = "rlock"
        /\ req[q].originalPath = req[r].originalPath
        /\ mtx.writers = {r}

PathNormalized(urlPath) ==
    LET P == OriginalPath(urlPath)
        rooted == IF HasPrefixSlash(urlPath) THEN urlPath ELSE <<"/">> \o urlPath
    IN  /\ HasPrefixSlash(P)
        /\ \A k \in 1..Len(P) : P[k] \notin {".", ".."}
        /\ \A k \in 1..(Len(P) - 1) : ~(P[k] = "/" /\ P[k + 1] = "/")
        /\ P[Len(P)] # "/"
        /\ Names(rooted) \in {<<>>, <<".">>, <<"..">>} => P = <<"/", "index.html">>

UnderRoot(osPath) ==
    /\ Len(osPath) > Len(RootDir) + 1
    /\ SubSeq(osPath, 1, Len(RootDir)) = RootDir
    /\ osPath[Len(RootDir) + 1] = "/"
    /\ \A k \in 1..Len(osPath) : osPath[k] # ".."

\* C10: the logical path of every request is rooted, free of "." and ".."
\* elements and is /index.html for the root, and every file the handler opens
\* lies under the root directory
C10_PathNormalization ==
    \A r \in Reqs :
        req[r].pc # "idle" =>
            /\ PathNormalized(req[r].path)
            /\ \A o \in req[r].opened : UnderRoot(o)

IsDirectory(p) == Stat(disk, p).kind = "dir"

\* the request names the root: "/" or the empty path
IsRootRequest(urlPath) == urlPath \in {<<"/">>, <<>>}

IndexPath(n) == AssetPath("index.html", Catalog[n].suffix)

IndexCandidates(rq) ==
    {n \in 1..Len(Catalog) : Eligible(rq.specs, n) /\ IsRegular(IndexPath(n))}

\* C11: a directory is never served: while the loop is still looking, after
\* any number of candidates that were directories, no status, header or body
\* has been written; a body streamed is a regular file; a request all of
\* whose eligible candidates are directories or absent is answered 404; and a
\* request for "/" is answered with the first eligible regular variant of
\* /index.html
C11_DirectoriesNeverServed ==
    \A r \in Reqs :
        LET rq == req[r]
        IN  /\ rq.pc = "loop" =>
                  rq.status = 0 /\ rq.header = NoHeader /\ rq.body = <<>>
            /\ rq.status = 200 => IsRegular(rq.body) /\ ~IsDirectory(rq.body)
            /\ (rq.pc = "done" /\ Candidates(rq) = {}) =>
                  rq.status = 404 /\ rq.body = <<>>
            /\ (rq.pc = "done" /\ IsRootRequest(rq.path)) =>
                  IF IndexCandidates(rq) = {} THEN rq.status = 404
                  ELSE /\ rq.status = 200
                       /\ rq.body = IndexPath(FirstOf(IndexCandidates(rq)))

\* a request for "/" passed over the directory /srv/index.html.br and was
\* served /srv/index.html.gz
C11_Witness ==
    \E r \in Reqs :
        /\ req[r].pc = "done"
        /\ req[r].path = <<"/">>
        /\ IsDirectory(AssetPath("index.html", ".br"))
        /\ AssetPath("index.html", ".br") \in req[r].opened
        /\ req[r].status = 200
        /\ req[r].body = AssetPath("index.html", ".gz")

(***************************************************************************)
(* CompressFiles.  In the paths of the tree it walks "." is a token as      *)
(* well, so that p + ".gz" and filepath.Ext are computed on the name.       *)
(***************************************************************************)
MaxRuns == 2           \* calls of CompressFiles in one behaviour
MaxFaults == 1         \* failures of the operating system in one behaviour

\* p + ".gz", p + ".br"
PlusExt(p, e) == p \o <<".", e>>

\* filepath.Ext(p) without its dot: what follows the last "." of the last element
FilepathExt(p) ==
    IF Len(p) >= 2 /\ p[Len(p) - 1] = "." THEN p[Len(p)] ELSE ""

LastSlash(p) == CHOOSE k \in 1..Len(p) : p[k] = "/" /\ \A m \in (k + 1)..Len(p) : p[m] # "/"

\* filepath.Dir and fileInfo.Name()
ParentOf(p) == SubSeq(p, 1, LastSlash(p) - 1)
BaseName(p) == SubSeq(p, LastSlash(p) + 1, Len(p))

\* rgx.FindString(fileInfo.Name()) != "" for a rule "x$|y$|...": the name ends
\* in one of the rule's words
RuleMatches(rule, name) == name[Len(name)] \in rule

WebRule == {"js", "css", "html"}
WideRule == {"js", "gz", "br"}
Rules == {WebRule, WideRule}

\* file contents: the bytes of a source, and a compressed stream of bytes
Raw(bytes) == [fmt |-> "raw", data |-> bytes]
Compress(fmt, bytes) == [fmt |-> fmt, data |-> bytes]
Corrupt == <<"corrupt">>
Decompress(fmt, c) == IF c.fmt = fmt THEN c.data ELSE Corrupt

SourceFile(bytes) == RegularFile(Raw(bytes), Len(bytes))
Artifact(fmt, bytes) == RegularFile(Compress(fmt, bytes), Len(bytes) + 1)

\* the tree
FileA == RootDir \o <<"/", "a", ".", "js">>
SubDir == RootDir \o <<"/", "sub">>
FileC == SubDir \o <<"/", "c", ".", "js">>
FileZ == RootDir \o <<"/", "z", ".", "gz">>
MissingDir == <<"/", "nope">>

BytesA == <<1, 2>>
BytesC == <<3>>
BytesOld == <<9>>

\* every path of the model in the lexical order of readDirNames
WalkOrder ==
    <<RootDir,
      FileA, PlusExt(FileA, "br"), PlusExt(FileA, "gz"),
      SubDir,
      FileC, PlusExt(FileC, "br"), PlusExt(FileC, "gz"),
      FileZ, PlusExt(FileZ, "br"), PlusExt(FileZ, "gz")>>

\* readDirNames(dir): the entries of dir, sorted
ReadDirNames(d, dir) ==
    SelectSeq(WalkOrder,
              LAMBDA p : p # RootDir /\ ParentOf(p) = dir /\ Stat(d, p).kind # "absent")

\* a tree with a.js, sub/c.js, perhaps z.gz, and perhaps siblings of a.js that
\* are fresh (made of a.js) or stale (made of older bytes)
SiblingStates == {"absent", "fresh", "stale"}

TreeOf(gz, br, z) ==
    LET sib(fmt, st) == IF st = "fresh" THEN Artifact(fmt, BytesA)
                        ELSE Artifact(fmt, BytesOld)
    IN  (RootDir :> Directory)
        @@ (FileA :> SourceFile(BytesA))
        @@ (SubDir :> Directory)
        @@ (FileC :> SourceFile(BytesC))
        @@ (IF gz = "absent" THEN <<>> ELSE (PlusExt(FileA, "gz") :> sib("gzip", gz)))
        @@ (IF br = "absent" THEN <<>> ELSE (PlusExt(FileA, "br") :> sib("br", br)))
        @@ (IF z THEN (FileZ :> Artifact("gzip", BytesOld)) ELSE <<>>)

Trees == {TreeOf(gz, br, z) : gz \in SiblingStates, br \in SiblingStates, z \in BOOLEAN}

Dirs == {RootDir, FileA, MissingDir}

\* the failures of the operating system a visit can meet
Faults == {"none", "lstat", "readdir", "open", "create_gz", "create_br", "copy_gz", "copy_br"}

WriteFile(d, p, f) == (p :> f) @@ d

\* the os.Stat of the first lines: its error for a missing dir, and
\* ErrPathIsNotDirectory for what is not a directory
StatDir_NoDirCheck(d, dir) ==
    IF Stat(d, dir).kind = "absent" THEN "ENOENT" ELSE ""

StatDir(d, dir) ==
    IF Stat(d, dir).kind = "absent" THEN "ENOENT"
    ELSE IF Stat(d, dir).kind # "dir" THEN "ErrPathIsNotDirectory"
    ELSE ""

\* CompressFiles(dir, rgx) is called
CompressFiles(dir, rule) ==
    /\ cf.pc \in {"idle", "done"}
    /\ cf.runs < MaxRuns
    /\ cf' = [IdleCF EXCEPT !.dir = dir,
                            !.rule = rule,
                            !.pre = disk,
                            !.runs = cf.runs + 1,
                            !.faults = cf.faults,
                            !.err = StatDir(disk, dir),
                            !.pc = IF StatDir(disk, dir) = "" THEN "walk" ELSE "done",
                            !.todo = IF StatDir(disk, dir) = "" THEN <<dir>> ELSE <<>>]
    /\ UNCHANGED <<disk, contentTypeCache, mtx, req, ar>>

\* whether the callback compresses p: a regular file whose name matches
Matched(d, rule, p) ==
    Stat(d, p).kind = "file" /\ RuleMatches(rule, BaseName(p))

NeedsCompression_Always(p) == TRUE

NeedsCompression(p) == FilepathExt(p) # "gz" /\ FilepathExt(p) # "br"

\* the walk abandons the rest and CompressFiles returns matches and err
Abort(c, err) == [c EXCEPT !.err = err, !.todo = <<>>, !.pc = "done"]

\* filepath.Walk visits the next path and calls the callback on it
Visit(fault) ==
    /\ cf.pc = "walk"
    /\ cf.todo # <<>>
    /\ fault # "none" => cf.faults < MaxFaults
    /\ LET p == Head(cf.todo)
           rest == Tail(cf.todo)
           info == Stat(disk, p)
           bytes == info.content.data
           c == [cf EXCEPT !.todo = rest,
                           !.faults = IF fault = "none" THEN @ ELSE @ + 1]
           skip == c
           swallow(e) == [c EXCEPT !.swallowed = @ \cup {<<p, e>>}]
           matched == [c EXCEPT !.matches = Append(@, p)]
           gz == PlusExt(p, "gz")
           br == PlusExt(p, "br")
       IN  IF fault = "lstat"
             \* the callback is given err != nil and returns nil
             THEN cf' = swallow("lstat") /\ disk' = disk
           ELSE IF info.kind = "dir"
             THEN /\ fault \in {"none", "readdir"}
                  /\ disk' = disk
                  /\ cf' = IF fault = "readdir" THEN swallow("readdir")
                           ELSE [c EXCEPT !.todo = ReadDirNames(disk, p) \o rest]
           ELSE IF ~Matched(disk, cf.rule, p)
             THEN fault = "none" /\ cf' = skip /\ disk' = disk
           ELSE IF fault = "open"
             THEN cf' = Abort(c, "open") /\ disk' = disk
           ELSE IF ~NeedsCompression(p)
             THEN fault = "none" /\ cf' = matched /\ disk' = disk
           ELSE IF fault = "create_gz"
             THEN cf' = Abort(matched, "create") /\ disk' = disk
           ELSE IF fault = "create_br"
             THEN /\ cf' = Abort([matched EXCEPT !.created = @ \cup {gz}], "create")
                  /\ disk' = WriteFile(disk, gz, Artifact("gzip", bytes))
           ELSE IF fault = "copy_gz"
             THEN \E n \in 0..(Len(bytes) - 1) :
                    /\ cf' = [matched EXCEPT !.created = @ \cup {gz, br},
                                             !.swallowed = @ \cup {<<p, "copy">>}]
                    /\ disk' = WriteFile(WriteFile(disk, gz,
                                             Artifact("gzip", SubSeq(bytes, 1, n))),
                                         br, Artifact("br", bytes))
           ELSE IF fault = "copy_br"
             THEN \E n \in 0..(Len(bytes) - 1) :
                    /\ cf' = [matched EXCEPT !.created = @ \cup {gz, br},
                                             !.swallowed = @ \cup {<<p, "copy">>}]
                    /\ disk' = WriteFile(WriteFile(disk, gz, Artifact("gzip", bytes)),
                                         br, Artifact("br", SubSeq(bytes, 1, n)))
           ELSE /\ fault = "none"
                /\ cf' = [matched EXCEPT !.created = @ \cup {gz, br}]
                /\ disk' = WriteFile(WriteFile(disk, gz, Artifact("gzip", bytes)),
                                     br, Artifact("br", bytes))
    /\ UNCHANGED <<contentTypeCache, mtx, req, ar>>

\* filepath.Walk has visited everything: return matches, err with err = nil
WalkReturns ==
    /\ cf.pc = "walk"
    /\ cf.todo = <<>>
    /\ cf' = [cf EXCEPT !.pc = "done"]
    /\ UNCHANGED <<disk, contentTypeCache, mtx, req, ar>>

InitCompress ==
    /\ disk \in Trees
    /\ contentTypeCache = <<>>
    /\ mtx = [readers |-> {}, writers |-> {}]
    /\ req = [r \in Reqs |-> IdleReq]
    /\ cf = IdleCF
    /\ ar = NewArchiver

NextCompress ==
    \/ \E dir \in Dirs, rule \in Rules : CompressFiles(dir, rule)
    \/ \E fault \in Faults : Visit(fault)
    \/ WalkReturns

SpecCompress == InitCompress /\ [][NextCompress]_vars

(***************************************************************************)
(* The vocabulary of the properties of CompressFiles.                       *)
(***************************************************************************)
IsPrefix(a, b) == Len(a) <= Len(b) /\ SubSeq(b, 1, Len(a)) = a

\* the regular files under the root of the call whose name matches its rule,
\* as the tree was when the call was made
MatchingFiles ==
    {P \in DOMAIN cf.pre : IsPrefix(cf.dir, P) /\ Matched(cf.pre, cf.rule, P)}

SiblingsOf(P) == {PlusExt(P, "gz"), PlusExt(P, "br")}

NoSiblingBefore ==
    \A P \in MatchingFiles : \A S \in SiblingsOf(P) : Stat(cf.pre, S).kind = "absent"

\* S exists and decompresses, as a stream of fmt, to the bytes of P
DecompressesTo(S, fmt, P) ==
    /\ Stat(disk, S).kind = "file"
    /\ Decompress(fmt, Stat(disk, S).content) = Stat(cf.pre, P).content.data

HasBothArtifacts(P) ==
    /\ DecompressesTo(PlusExt(P, "gz"), "gzip", P)
    /\ DecompressesTo(PlusExt(P, "br"), "br", P)

ReturnedNil == cf.pc = "done" /\ cf.err = ""

\* C12: when CompressFiles has returned without an error on a tree in which
\* no matching file had a .gz or .br sibling, every matching regular file P
\* under the root has P.gz and P.br, and both decompress to the bytes of P
C12_CompressionPostcondition ==
    (ReturnedNil /\ NoSiblingBefore) =>
        \A P \in MatchingFiles : HasBothArtifacts(P)

IsArtifactPath(p) == FilepathExt(p) \in {"gz", "br"}

\* the step gives to os.Create only names under which no file exists
CreatesOnlyAbsent ==
    \A p \in cf'.created \ cf.created : Stat(disk, p).kind = "absent"

\* the step leaves every file that exists as it is
KeepsExisting ==
    \A p \in DOMAIN disk : Stat(disk, p).kind # "absent" => Stat(disk', p) = Stat(disk, p)

\* C13: CompressFiles creates P.gz and P.br only when no file of that name
\* exists; no step of it overwrites, truncates or deletes an existing
\* artifact or modifies a source file, so a second run over an unchanged tree
\* writes nothing
C13_IdempotenceByAbsence ==
    [][CreatesOnlyAbsent /\ KeepsExisting]_vars

\* C14: a matching regular file whose name ends in .gz or .br is appended to
\* the returned list when it is visited and nothing is created for it; no
\* name given to os.Create is X.gz or X.br for an X that ends in .gz or .br
C14_NoCompressionOfCompression ==
    /\ \A p \in cf.created : ~IsArtifactPath(SubSeq(p, 1, Len(p) - 2))
    /\ \A p \in DOMAIN disk :
          IsArtifactPath(p) =>
              \A S \in SiblingsOf(p) : Stat(disk, S).kind = "absent"
    /\ ReturnedNil /\ cf.swallowed = {} =>
          \A P \in MatchingFiles :
              IsArtifactPath(P) => \E k \in 1..Len(cf.matches) : cf.matches[k] = P

\* z.gz matched the rule and was returned, and a.js was compressed by the
\* same call
C14_Witness ==
    /\ ReturnedNil
    /\ \E k \in 1..Len(cf.matches) : cf.matches[k] = FileZ
    /\ PlusExt(FileA, "gz") \in cf.created
    /\ Stat(disk, PlusExt(FileZ, "gz")).kind = "absent"

\* the call was made on a root that was missing or not a directory
BadRoot == cf.pc # "idle" /\ Stat(cf.pre, cf.dir).kind # "dir"

\* the call has returned no paths and has touched nothing
ReturnedEmptyHanded ==
    /\ cf.pc = "done"
    /\ cf.matches = <<>>
    /\ cf.created = {}
    /\ disk = cf.pre

\* C15 as stated: on a root that does not exist or is not a directory
\* CompressFiles fails with ErrPathIsNotDirectory, returns no matched paths
\* and creates no files
C15_RootMustBeDirectory_Stated ==
    BadRoot => ReturnedEmptyHanded /\ cf.err = "ErrPathIsNotDirectory"

\* C15: on a root that does not exist CompressFiles fails with the error of
\* os.Stat, and on a root that exists and is not a directory with
\* ErrPathIsNotDirectory; in both cases it returns no matched paths and
\* creates no files
C15_RootMustBeDirectory ==
    BadRoot =>
        /\ ReturnedEmptyHanded
        /\ cf.err = IF Stat(cf.pre, cf.dir).kind = "absent" THEN "ENOENT"
                    ELSE "ErrPathIsNotDirectory"

\* a second call, on the regular file /srv/a.js, after a first one compressed
\* the tree
C15_Witness ==
    /\ cf.runs = 2
    /\ cf.dir = FileA
    /\ cf.err = "ErrPathIsNotDirectory"
    /\ Stat(disk, PlusExt(FileC, "gz")).kind = "file"

\* C16: the walk is fail-fast: no error met while visiting an entry or while
\* compressing a matched file is passed over, and once an error has been met
\* the walk has stopped and CompressFiles returns that error, never nil
C16_FailFastWalk ==
    /\ cf.swallowed = {}
    /\ cf.err # "" => cf.pc = "done" /\ cf.todo = <<>>

(***************************************************************************)
(* SpecFaults: one request on a fresh handler whose open file may fail to   *)
(* Stat or to Read inside determineContentType.                             *)
(***************************************************************************)
HandleFaults == {"stat", "read"}

\* what file.Read leaves in the buffer when it fails: the zero bytes of make
ZeroBuf(n) == [content |-> "", len |-> n, filled |-> 0]

\* determineContentType reaches its last branch (no cached value, no type by
\* extension or by magic number) and the handle fails there: after a failed
\* file.Stat() fileInfo is nil and fileInfo.Size() is evaluated, which panics;
\* after a failed file.Read the zeroed buffer is sniffed
SniffFails(r, fault) ==
    LET rq == req[r]
        sniffs == /\ CacheGet(contentTypeCache, rq.originalPath) = ""
                  /\ TypeByExtension(ExtOf(rq.originalPath)) = ""
                  /\ MatchFile(disk, rq.originalPath) = ""
    IN  /\ rq.pc = "reading"
        /\ sniffs
        /\ mtx' = [mtx EXCEPT !.readers = @ \ {r}]
        /\ req' = [req EXCEPT ![r] =
                IF fault = "stat" THEN [rq EXCEPT !.pc = "panic"]
                ELSE [rq EXCEPT !.pending =
                                    DetectContentType(ZeroBuf(SniffSize(FALSE, rq.file.size))),
                                !.sniffed = ZeroBuf(SniffSize(FALSE, rq.file.size)),
                                !.pc = "lock"]]
        /\ UNCHANGED <<disk, contentTypeCache>>
        /\ UNCHANGED nonHandlerVars

NextFaults ==
    \/ \E u \in AssetURLs, s \in PathSpecs : ServeHTTP("r1", u, s)
    \/ Step("r1")
    \/ \E fault \in HandleFaults : SniffFails("r1", fault)

SpecFaults == Init /\ [][NextFaults]_vars

\* C17: determineContentType never fails: no request panics, the type it
\* resolves is a non-empty MIME string also when Stat or Read of the handle
\* fails, and a request ends in a 200 with a non-empty Content-Type or in
\* the 404
C17_ContentTypeNeverFails ==
    \A r \in Reqs :
        LET rq == req[r]
        IN  /\ rq.pc # "panic"
            /\ rq.pc \in {"lock", "writing"} => rq.pending # ""
            /\ rq.pc = "done" =>
                  /\ rq.status \in {200, 404}
                  /\ ContentType(rq) # <<>>
                  /\ ContentType(rq)[1] # ""

(***************************************************************************)
(* The Archiver.  Its methods run under a.mtx; a call is a step that makes  *)
(* the call, a step that takes the mutex, and the steps of the method's     *)
(* body, the last of which unlocks and returns.  Each temporary file has a  *)
(* goroutine deleteFileWhenDestroyed that waits on destroyChan.             *)
(***************************************************************************)
MaxCalls == 3          \* method calls on the Archiver in one behaviour

\* strings.Split(s, ".")[0]: what precedes the first "."
FirstSegment(s) ==
    IF \E k \in 1..Len(s) : s[k] = "."
      THEN SubSeq(s, 1, (CHOOSE k \in 1..Len(s) :
                            s[k] = "." /\ \A m \in 1..(k - 1) : s[m] # ".") - 1)
    ELSE s

CsvName(filename) == FirstSegment(filename) \o <<".", "csv">>
TarGzPath(p) == FirstSegment(p) \o <<".", "tar", ".", "gz">>

FileNames == {<<"a">>, <<"b", ".", "txt">>}
LineSets == {<<>>, <<"row">>}
OutPaths == {<<"out">>, <<"out", ".", "zip">>}

\* the non-blocking receive of isDestroyed
isDestroyed_Never(a) == FALSE

isDestroyed(a) == a.destroyChan = "closed"

\* the deferred a.mtx.Unlock() and the return
Return(a, t, ret) ==
    [a EXCEPT !.mtx = "", !.thr[t].pc = "done", !.thr[t].ret = ret]

Call(t, op) ==
    [IdleThread EXCEPT !.op = op,
                       !.pc = "lock",
                       !.closedAtCall = ar.destroyChan = "closed"]

CanCall(t) == ar.thr[t].pc \in {"idle", "done"} /\ ar.calls < MaxCalls

archiveUnchanged == UNCHANGED <<disk, contentTypeCache, mtx, req, cf>>

\* a thread calls a.AddCSV(filename, lines)
AddCSV(t, filename, lines) ==
    /\ CanCall(t)
    /\ ar' = [ar EXCEPT !.calls = @ + 1,
                        !.thr[t] = [Call(t, "AddCSV") EXCEPT !.filename = filename,
                                                             !.lines = lines]]
    /\ archiveUnchanged

\* a thread calls a.CreateArchive(p)
CreateArchive(t, p) ==
    /\ CanCall(t)
    /\ ar' = [ar EXCEPT !.calls = @ + 1,
                        !.thr[t] = [Call(t, "CreateArchive") EXCEPT !.filename = p]]
    /\ archiveUnchanged

\* a thread calls a.Destroy()
Destroy(t) ==
    /\ CanCall(t)
    /\ ar' = [ar EXCEPT !.calls = @ + 1, !.thr[t] = Call(t, "Destroy")]
    /\ archiveUnchanged

\* a.mtx.Lock() of the three methods
MtxLock(t) ==
    /\ ar.thr[t].pc = "lock"
    /\ ar.mtx = ""
    /\ ar' = [ar EXCEPT !.mtx = t, !.thr[t].pc = ar.thr[t].op]
    /\ archiveUnchanged

\* Destroy without the select: close(a.destroyChan) every time
DestroyBody_AlwaysClose(t) ==
    /\ ar.thr[t].pc = "Destroy"
    /\ ar' = Return([ar EXCEPT !.destroyChan = "closed", !.closes = @ + 1], t, "nil")
    /\ archiveUnchanged

\* Destroy: close destroyChan unless a receive shows it closed; unlock
DestroyBody(t) ==
    /\ ar.thr[t].pc = "Destroy"
    /\ ar' = Return(IF ar.destroyChan = "closed" THEN ar
                    ELSE [ar EXCEPT !.destroyChan = "closed", !.closes = @ + 1],
                    t, "nil")
    /\ archiveUnchanged

\* AddCSV: the test of isDestroyed
AddCheck(t) ==
    /\ ar.thr[t].pc = "AddCSV"
    /\ ar' = IF isDestroyed(ar) THEN Return(ar, t, "ErrArchiverHasBeenDestroyed")
             ELSE [ar EXCEPT !.thr[t].pc = "tempfile"]
    /\ archiveUnchanged

\* AddCSV: ioutil.TempFile and `go a.deleteFileWhenDestroyed(file.Name())`
AddTempFile(t, ok) ==
    /\ ar.thr[t].pc = "tempfile"
    /\ LET id == ar.nextTemp + 1
       IN  ar' = IF ~ok THEN Return(ar, t, "TempFileError")
                 ELSE [ar EXCEPT !.nextTemp = id,
                                 !.tmp = @ \cup {id},
                                 !.content = Append(@, <<>>),
                                 !.offset = Append(@, "start"),
                                 !.deleters = @ \cup {id},
                                 !.thr[t].file = id,
                                 !.thr[t].pc = "write"]
    /\ archiveUnchanged

\* AddCSV: the rows are written, the handle is rewound and the entry is
\* appended to the file list; a write error returns before that
AddWrite(t, ok) ==
    /\ ar.thr[t].pc = "write"
    /\ LET th == ar.thr[t]
           id == th.file
       IN  ar' = IF ~ok THEN Return([ar EXCEPT !.offset[id] = "end"], t, "WriteError")
                 ELSE Return([ar EXCEPT !.content[id] = th.lines,
                                        !.offset[id] = "start",
                                        !.filelist = Append(@, [name |-> CsvName(th.filename),
                                                                object |-> id]),
                                        !.added = Append(@, [filename |-> th.filename,
                                                             lines |-> th.lines])],
                             t, "nil")
    /\ archiveUnchanged

\* os.Remove(filename)
RemoveFile_Nothing(files, id) == files

RemoveFile(files, id) == files \ {id}

\* deleteFileWhenDestroyed: the receive from destroyChan succeeds once it is
\* closed, then the file is removed
deleteFileWhenDestroyed(id) ==
    /\ id \in ar.deleters
    /\ ar.destroyChan = "closed"
    /\ ar' = [ar EXCEPT !.deleters = @ \ {id}, !.tmp = RemoveFile(@, id)]
    /\ archiveUnchanged

\* a CreateArchive that empties the file list when it returns
ExitCreate_ClearList(a, t, ret) ==
    Return([a EXCEPT !.tmp = @ \ a.thr[t].deferred, !.filelist = <<>>], t, ret)

\* CreateArchive returns: the deferred os.Remove calls run, then the unlock
ExitCreate(a, t, ret) ==
    Return([a EXCEPT !.tmp = @ \ a.thr[t].deferred], t, ret)

\* len(a.filelist) == 0
NothingToArchive_Never(a) == FALSE

NothingToArchive(a) == Len(a.filelist) = 0

\* CreateArchive: the test of the file list and os.Create of the output
CreateBegin(t, ok) ==
    /\ ar.thr[t].pc = "CreateArchive"
    /\ LET p == TarGzPath(ar.thr[t].filename)
       IN  ar' = IF NothingToArchive(ar) THEN Return(ar, t, "ErrNothingToArchive")
                 ELSE IF ~ok THEN Return(ar, t, "CreateError")
                 ELSE [ar EXCEPT !.out = (p :> <<>>) @@ @,
                                 !.short = FALSE,
                                 !.thr[t].k = 1,
                                 !.thr[t].pc = "loop"]
    /\ archiveUnchanged

ArchiveFaults == {"none", "stat", "header", "copy"}

\* CreateArchive: one round of the loop over the file list
CreateFile(t, fault) ==
    /\ ar.thr[t].pc = "loop"
    /\ ar.thr[t].k <= Len(ar.filelist)
    /\ LET th == ar.thr[t]
           p == TarGzPath(th.filename)
           file == ar.filelist[th.k]
           id == file.object
           a1 == [ar EXCEPT !.thr[t].deferred = @ \cup {id}]
           copied == IF ar.offset[id] = "start" THEN ar.content[id] ELSE <<>>
       IN  ar' = IF fault = "stat" THEN ExitCreate(a1, t, "StatError")
                 \* trw.WriteHeader flushes the entry before: too few bytes is an error
                 ELSE IF fault = "header" \/ ar.short THEN ExitCreate(a1, t, "HeaderError")
                 ELSE IF fault = "copy"
                   THEN ExitCreate([a1 EXCEPT !.out[p] = Append(@, [name |-> file.name,
                                                                     rows |-> <<>>]),
                                              !.offset[id] = "end"],
                                   t, "CopyError")
                 ELSE [a1 EXCEPT !.out[p] = Append(@, [name |-> file.name, rows |-> copied]),
                                 !.short = copied # ar.content[id],
                                 !.offset[id] = "end",
                                 !.tmp = @ \ {id},
                                 !.thr[t].k = th.k + 1]
    /\ archiveUnchanged

\* CreateArchive: the loop is over, return nil
CreateReturn(t) ==
    /\ ar.thr[t].pc = "loop"
    /\ ar.thr[t].k > Len(ar.filelist)
    /\ ar' = ExitCreate(ar, t, "nil")
    /\ archiveUnchanged

\* a fresh Archiver; the trees of the other operations are not there
InitArchiver ==
    /\ disk = <<>>
    /\ contentTypeCache = <<>>
    /\ mtx = [readers |-> {}, writers |-> {}]
    /\ req = [r \in Reqs |-> IdleReq]
    /\ cf = IdleCF
    /\ ar = NewArchiver

ThreadStep(t) ==
    \/ MtxLock(t)
    \/ DestroyBody(t)
    \/ AddCheck(t)
    \/ \E ok \in BOOLEAN : AddTempFile(t, ok)
    \/ \E ok \in BOOLEAN : AddWrite(t, ok)
    \/ \E ok \in BOOLEAN : CreateBegin(t, ok)
    \/ \E fault \in ArchiveFaults : CreateFile(t, fault)
    \/ CreateReturn(t)

NextArchiver ==
    \/ \E t \in Threads, f \in FileNames, l \in LineSets : AddCSV(t, f, l)
    \/ \E t \in Threads, p \in OutPaths : CreateArchive(t, p)
    \/ \E t \in Threads : Destroy(t)
    \/ \E t \in Threads : ThreadStep(t)
    \/ \E id \in 1..MaxCalls : deleteFileWhenDestroyed(id)

SpecArchiver == InitArchiver /\ [][NextArchiver]_vars

\* C18: an AddCSV called once destroyChan is closed (so any AddCSV called
\* after Destroy has returned) returns ErrArchiverHasBeenDestroyed, and no
\* step taken while destroyChan is closed adds an entry to the file list or
\* creates a temporary file, in any interleaving of the callers
C18_AddAfterDestroy ==
    [][/\ ar.destroyChan = "closed" =>
            /\ ar'.filelist = ar.filelist
            /\ ar'.nextTemp = ar.nextTemp
            /\ ar'.tmp \subseteq ar.tmp
       /\ \A t \in Threads :
            (/\ ar'.thr[t].op = "AddCSV"
             /\ ar'.thr[t].closedAtCall
             /\ ar'.thr[t].pc = "done")
                => ar'.thr[t].ret = "ErrArchiverHasBeenDestroyed"]_vars

\* an AddCSV that was called after a Destroy returned has returned, on an
\* archiver that holds an entry added before
C18_Witness ==
    \E t, u \in Threads :
        /\ ar.thr[t].op = "AddCSV"
        /\ ar.thr[t].closedAtCall
        /\ ar.thr[t].pc = "done"
        /\ ar.thr[u].op = "Destroy"
        /\ ar.thr[u].pc = "done"
        /\ Len(ar.filelist) = 1

\* C19: a CreateArchive that finds the file list empty returns
\* ErrNothingToArchive and creates no output file, and CreateArchive returns
\* ErrNothingToArchive only when it found the file list empty
C19_NothingToArchive ==
    [][\A t \in Threads :
          (ar.thr[t].pc = "CreateArchive" /\ ar'.thr[t] # ar.thr[t]) =>
              /\ Len(ar.filelist) = 0 =>
                    /\ ar'.thr[t].pc = "done"
                    /\ ar'.thr[t].ret = "ErrNothingToArchive"
                    /\ ar'.out = ar.out
              /\ (ar'.thr[t].pc = "done" /\ ar'.thr[t].ret = "ErrNothingToArchive")
                    => Len(ar.filelist) = 0 /\ ar'.out = ar.out]_vars

\* a CreateArchive has returned ErrNothingToArchive, no output exists, and
\* the other caller's AddCSV has failed to write its temporary file
C19_Witness ==
    \E t, u \in Threads :
        /\ ar.thr[t].op = "CreateArchive"
        /\ ar.thr[t].pc = "done"
        /\ ar.thr[t].ret = "ErrNothingToArchive"
        /\ ar.out = <<>>
        /\ ar.thr[u].op = "AddCSV"
        /\ ar.thr[u].ret = "WriteError"
        /\ ar.nextTemp = 1

(***************************************************************************)
(* SpecArchiverFair: the Archiver under the scheduler of the Go runtime,    *)
(* which runs every goroutine that can run: the callers' steps and the      *)
(* deleteFileWhenDestroyed goroutines are weakly fair.                      *)
(***************************************************************************)
NextArchiverFair ==
    \/ \E t \in Threads : AddCSV(t, <<"a">>, <<"row">>)
    \/ \E t \in Threads : CreateArchive(t, <<"out">>)
    \/ \E t \in Threads : Destroy(t)
    \/ \E t \in Threads : ThreadStep(t)
    \/ \E id \in 1..MaxCalls : deleteFileWhenDestroyed(id)

SpecArchiverFair ==
    /\ InitArchiver
    /\ [][NextArchiverFair]_vars
    /\ \A t \in Threads : WF_vars(ThreadStep(t))
    /\ \A id \in 1..MaxCalls : WF_vars(deleteFileWhenDestroyed(id))

DestroyCalled ==
    \E t \in Threads : ar.thr[t].op = "Destroy" /\ ar.thr[t].pc # "idle"

AllTempRemoved == ar.tmp = {}

\* a goroutine removes only once destroyChan is closed
NoEarlyRemoval == ar.deleters \ ar'.deleters # {} => ar.destroyChan = "closed"

\* C20: once Destroy has been called every temporary file an AddCSV created,
\* also one whose AddCSV returned a write error, is eventually removed, and
\* no deleteFileWhenDestroyed goroutine removes its file before destroyChan
\* is closed
C20_DestroyCleansUp ==
    /\ DestroyCalled ~> AllTempRemoved
    /\ [][NoEarlyRemoval]_vars

\* after a Destroy, the goroutine of a file whose AddCSV returned a write
\* error has removed it
C20_Witness ==
    \E t \in Threads :
        /\ ar.thr[t].op = "AddCSV"
        /\ ar.thr[t].ret = "WriteError"
        /\ ar.thr[t].file \notin ar.tmp
        /\ ar.thr[t].file \notin ar.deleters
        /\ ar.destroyChan = "closed"

\* the entries the tables added so far should give: one per table, in the
\* order added, named by the table's name with ".csv", holding its rows
ExpectedEntries(added) ==
    [k \in 1..Len(added) |->
        [name |-> added[k].filename \o <<".", "csv">>, rows |-> added[k].lines]]

\* the step in which the CreateArchive of t returns nil
CreateSucceeds(t) ==
    /\ ar.thr[t].op = "CreateArchive"
    /\ ar.thr[t].pc = "loop"
    /\ ar'.thr[t].pc = "done"
    /\ ar'.thr[t].ret = "nil"

\* C21: when a CreateArchive(stem) returns nil after k AddCSV calls returned
\* nil, <stem>.tar.gz exists and holds exactly k entries, in the order the
\* tables were added, each named by its table's name with ".csv" and holding
\* the rows of that call
C21_ArchiveContents ==
    [][\A t \in Threads :
          CreateSucceeds(t) =>
              LET stem == ar.thr[t].filename
                  path == stem \o <<".", "tar", ".", "gz">>
              IN  /\ path \in DOMAIN ar'.out
                  /\ ar'.out[path] = ExpectedEntries(ar.added)]_vars

\* the position of a suffix in the catalog
CatalogIndex(suffix) == CHOOSE n \in 1..Len(Catalog) : Catalog[n].suffix = suffix

InCatalogOrder(tried) ==
    \A a, b \in 1..Len(tried) :
        a < b => CatalogIndex(tried[a]) <= CatalogIndex(tried[b])

AtMostOnce(tried) ==
    \A a, b \in 1..Len(tried) : a # b => tried[a] # tried[b]

\* one response: a served variant, which the last attempt opened, or the 404
OneResponse(rq) ==
    \/ /\ rq.status = 200
       /\ rq.tried # <<>>
       /\ rq.body = RootDir \o PathPlus(OriginalPath(rq.path), rq.tried[Len(rq.tried)])
    \/ /\ rq.status = 404
       /\ rq.body = <<>>

\* C22: within a request the candidates are attempted in catalog order, each
\* catalog entry at most once; the first attempt that succeeds is the last
\* one, and the request ends with exactly one response, a served variant or
\* the 404
C22_AttemptsInOrderOnce ==
    \A r \in Reqs :
        LET rq == req[r]
        IN  /\ InCatalogOrder(rq.tried)
            /\ AtMostOnce(rq.tried)
            /\ rq.pc = "done" => OneResponse(rq)

\* the file of the attempt was sniffed
WasSniffed(rq) == rq.sniffed # NoBuf

\* C23: the buffer given to the detector holds exactly min(512, file size)
\* bytes, all of them bytes of the file: a file shorter than 512 bytes is
\* sniffed on a buffer of its own length, a longer one on its first 512 bytes
C23_SniffLength ==
    \A r \in Reqs :
        LET rq == req[r]
        IN  WasSniffed(rq) =>
              /\ rq.sniffed.len = Min(SniffLen, rq.file.size)
              /\ rq.sniffed.filled = rq.sniffed.len

\* the temporary files of the file list
ListedFiles(a) == {a.filelist[k].object : k \in 1..Len(a.filelist)}

\* the step in which the CreateArchive of t returns after it found the file
\* list non-empty
CreateReturnsNonEmpty(t) ==
    /\ ar.thr[t].op = "CreateArchive"
    /\ ar.thr[t].pc \in {"CreateArchive", "loop"}
    /\ ar'.thr[t].pc = "done"
    /\ Len(ar.filelist) > 0

\* C24: when CreateArchive returns after it found the file list non-empty,
\* with nil or with an error of os.Create, Stat, the header or the copy, no
\* temporary file of the file list exists any more
C24_CreateArchiveRemovesTemps ==
    [][\A t \in Threads :
          CreateReturnsNonEmpty(t) => ListedFiles(ar') \cap ar'.tmp = {}]_vars

\* the step in which the Destroy of t returns
DestroyReturns(t) ==
    /\ ar.thr[t].op = "Destroy"
    /\ ar.thr[t].pc = "Destroy"
    /\ ar'.thr[t].pc = "done"

DestroyPending(t) == ar.thr[t].op = "Destroy" /\ ar.thr[t].pc \in {"lock", "Destroy"}

DestroyDone(t) == ar.thr[t].op = "Destroy" /\ ar.thr[t].pc = "done"

\* destroyChan is closed at most once, by a Destroy, and stays closed
ClosedOnce ==
    /\ ar.closes <= 1
    /\ isDestroyed(ar) <=> ar.closes = 1

ClosedByDestroy ==
    /\ ar'.closes # ar.closes => \E t \in Threads : DestroyReturns(t)
    /\ \A t \in Threads : DestroyReturns(t) => isDestroyed(ar')
    /\ isDestroyed(ar) => isDestroyed(ar')

\* C25: in every interleaving of Destroy, AddCSV and CreateArchive calls
\* destroyChan is closed at most once and only by a Destroy, isDestroyed is
\* false until the first Destroy has closed it and true ever after, and
\* every Destroy that is called returns
C25_DestroyIdempotent ==
    /\ []ClosedOnce
    /\ [][ClosedByDestroy]_vars
    /\ \A t \in Threads : DestroyPending(t) ~> DestroyDone(t)

\* two Destroy calls, one of each caller, have returned on an archiver that
\* holds an entry, and the channel was closed once
C25_Witness ==
    /\ \A t \in Threads : DestroyDone(t)
    /\ Len(ar.filelist) = 1
    /\ ar.closes = 1

\* the step is one of the call of t
StepOf(t) == ar'.thr[t] # ar.thr[t]

\* the step in which the AddCSV of t returns
AddReturns(t) ==
    /\ ar.thr[t].op = "AddCSV"
    /\ ar.thr[t].pc \in {"AddCSV", "tempfile", "write"}
    /\ ar'.thr[t].pc = "done"

FileListGrows ==
    /\ Len(ar'.filelist) >= Len(ar.filelist)
    /\ SubSeq(ar'.filelist, 1, Len(ar.filelist)) = ar.filelist

\* C26: the file list only grows: an AddCSV that returns nil has appended
\* exactly one entry and one that returns an error none; no step of
\* CreateArchive, of Destroy or of a goroutine changes the list; and a
\* CreateArchive that finds entries in the list, also after a CreateArchive
\* that returned nil, goes through them again and does not return
\* ErrNothingToArchive
C26_FileListOnlyGrows ==
    [][/\ FileListGrows
       /\ \A t \in Threads :
            /\ AddReturns(t) =>
                  IF ar'.thr[t].ret = "nil"
                    THEN /\ Len(ar'.filelist) = Len(ar.filelist) + 1
                         /\ ar'.filelist[Len(ar'.filelist)].object = ar.thr[t].file
                    ELSE ar'.filelist = ar.filelist
            /\ ~AddReturns(t) /\ StepOf(t) => ar'.filelist = ar.filelist
       /\ (\A t \in Threads : ~StepOf(t)) => ar'.filelist = ar.filelist
       /\ \A t \in Threads :
            (ar.thr[t].pc = "CreateArchive" /\ StepOf(t) /\ Len(ar.filelist) > 0) =>
                /\ ar'.thr[t].ret # "ErrNothingToArchive"
                /\ ar'.thr[t].pc = "loop" => ar'.thr[t].k = 1]_vars

\* a CreateArchive has returned nil and a following one is going through the
\* same entry
C26_Witness ==
    \E t, u \in Threads :
        /\ ar.thr[t].op = "CreateArchive"
        /\ ar.thr[t].pc = "done"
        /\ ar.thr[t].ret = "nil"
        /\ ar.thr[u].op = "CreateArchive"
        /\ ar.thr[u].pc = "loop"
        /\ ar.thr[u].k = 1
        /\ Len(ar.filelist) = 1

====
